---- MODULE Spec2Model ----
(***************************************************************************)
(* Model of src/src/extension.ts: the "simple-create-lwc.createLWC"        *)
(* command handler and its helper normalizeComponentName.                  *)
(*                                                                         *)
(* A JavaScript string is a sequence of one-character strings; a path is a *)
(* sequence of path segments (each segment a string); file content is a    *)
(* string as well (template literals are concatenations).                  *)
(***************************************************************************)
EXTENDS Integers, Sequences, FiniteSets, TLC

\* ------------------------------------------------------------------------
\* Bounds
\* ------------------------------------------------------------------------

\* longest argument handed to normalizeComponentName in SpecNorm
MaxLen == 5

\* ------------------------------------------------------------------------
\* Characters and the String methods the code uses
\* ------------------------------------------------------------------------

LowerLetters ==
  <<"a","b","c","d","e","f","g","h","i","j","k","l","m",
    "n","o","p","q","r","s","t","u","v","w","x","y","z">>

UpperLetters ==
  <<"A","B","C","D","E","F","G","H","I","J","K","L","M",
    "N","O","P","Q","R","S","T","U","V","W","X","Y","Z">>

Digits == {"0","1","2","3","4","5","6","7","8","9"}

\* the character class [a-z]
IsLower(c) == \E k \in DOMAIN LowerLetters : LowerLetters[k] = c

\* the character class [A-Z]
IsUpper(c) == \E k \in DOMAIN UpperLetters : UpperLetters[k] = c

\* String.prototype.toUpperCase on one character
CharToUpperCase(c) ==
  IF IsLower(c)
    THEN UpperLetters[CHOOSE k \in DOMAIN LowerLetters : LowerLetters[k] = c]
    ELSE c

\* String.prototype.toLowerCase on one character
CharToLowerCase(c) ==
  IF IsUpper(c)
    THEN LowerLetters[CHOOSE k \in DOMAIN UpperLetters : UpperLetters[k] = c]
    ELSE c

\* String.prototype.toLowerCase
toLowerCase(s) == [k \in DOMAIN s |-> CharToLowerCase(s[k])]

\* String.prototype.slice(from) with a 0-based start index
slice(s, from) == SubSeq(s, from + 1, Len(s))

\* ------------------------------------------------------------------------
\* normalizeComponentName
\* ------------------------------------------------------------------------

\* variant of ReplaceKebab: the regular expression without the g flag, only
\* the first match is replaced
RECURSIVE ReplaceKebabFirstOnly(_)
ReplaceKebabFirstOnly(s) ==
  IF s = <<>> THEN <<>>
  ELSE IF Len(s) >= 2 /\ s[1] = "-" /\ IsLower(s[2])
    THEN <<CharToUpperCase(s[2])>> \o slice(s, 2)
    ELSE <<s[1]>> \o ReplaceKebabFirstOnly(slice(s, 1))

\* variant of ReplaceKebab: the class [a-z0-9] in place of [a-z]
RECURSIVE ReplaceKebabDigits(_)
ReplaceKebabDigits(s) ==
  IF s = <<>> THEN <<>>
  ELSE IF Len(s) >= 2 /\ s[1] = "-" /\ (IsLower(s[2]) \/ s[2] \in Digits)
    THEN <<CharToUpperCase(s[2])>> \o ReplaceKebabDigits(slice(s, 2))
    ELSE <<s[1]>> \o ReplaceKebabDigits(slice(s, 1))

\* name.replace(/-([a-z])/g, (_, char) => char.toUpperCase()):
\* leftmost non-overlapping matches, scanning from the start
RECURSIVE ReplaceKebab(_)
ReplaceKebab(s) ==
  IF s = <<>> THEN <<>>
  ELSE IF Len(s) >= 2 /\ s[1] = "-" /\ IsLower(s[2])
    THEN <<CharToUpperCase(s[2])>> \o ReplaceKebab(slice(s, 2))
    ELSE <<s[1]>> \o ReplaceKebab(slice(s, 1))

\* variant of ReplaceLeadingUpper: the second replace left out
KeepLeadingUpper(s) == s

\* .replace(/^([A-Z])/, (_, char) => char.toLowerCase())
ReplaceLeadingUpper(s) ==
  IF s # <<>> /\ IsUpper(s[1])
    THEN <<CharToLowerCase(s[1])>> \o slice(s, 1)
    ELSE s

\* the value named camelCase in normalizeComponentName
CamelCaseOf(name) == ReplaceLeadingUpper(ReplaceKebab(name))

\* camelCase[0].toUpperCase() + camelCase.slice(1); camelCase[0] is
\* undefined for the empty string, and undefined.toUpperCase() throws
PascalCaseOf(camelCase) == <<CharToUpperCase(camelCase[1])>> \o slice(camelCase, 1)

TypeErrorMessage == <<"Cannot read properties of undefined (reading 'toUpperCase')">>

\* variant of normalizeComponentName: pascalCase built from name, not from
\* camelCase
normalizeFromName(name) ==
  LET camelCase == CamelCaseOf(name) IN
  IF camelCase = <<>>
    THEN [threw |-> TRUE, message |-> TypeErrorMessage,
          camelCase |-> <<>>, pascalCase |-> <<>>]
    ELSE [threw |-> FALSE, message |-> <<>>,
          camelCase |-> camelCase, pascalCase |-> PascalCaseOf(name)]

normalizeComponentName(name) ==
  LET camelCase == CamelCaseOf(name) IN
  IF camelCase = <<>>
    THEN [threw |-> TRUE, message |-> TypeErrorMessage,
          camelCase |-> <<>>, pascalCase |-> <<>>]
    ELSE [threw |-> FALSE, message |-> <<>>,
          camelCase |-> camelCase, pascalCase |-> PascalCaseOf(camelCase)]

\* ------------------------------------------------------------------------
\* path and fs as the handler uses them
\* ------------------------------------------------------------------------

\* turns a source literal into a string of the model
Str(chunk) == <<chunk>>

Sep == "/"

\* path.join(a, b) for a directory a and a segment b without separators
PathJoin(a, b) == a \o <<Sep>> \o b

\* path.dirname(p): everything before the last separator
PathDirname(p) ==
  LET seps == {k \in DOMAIN p : p[k] = Sep} IN
  IF seps = {} THEN Str(".")
  ELSE LET last == CHOOSE k \in seps : \A j \in seps : j <= k IN
       IF last = 1 THEN <<Sep>> ELSE SubSeq(p, 1, last - 1)

\* the three labels offered by showQuickPick, in display order
Labels == << <<"J","S">>, <<"H","T","M","L">>, <<"C","S","S">> >>

\* ["JS", "HTML", "CSS"].map((label) => ({ label, picked: label !== "CSS" }))
QuickPickItems ==
  [k \in DOMAIN Labels |-> [label |-> Labels[k], picked |-> Labels[k] # <<"C","S","S">>]]

JsTemplate(pascalCaseName) ==
  Str("import { LightningElement } from 'lwc';\n\nexport default class ")
    \o pascalCaseName \o Str(" extends LightningElement {}")

HtmlTemplate == Str("<template>\n\n</template>")

CssTemplate == <<>>

\* ------------------------------------------------------------------------
\* State
\* ------------------------------------------------------------------------

\* the invocations of the command (each runs the handler once)
Procs == {1, 2}

VARIABLES
  pc,               \* per invocation: position in the handler
  uri,              \* per invocation: the argument ( <<>> is undefined, <<p>> a Uri with fsPath p )
  targetDir,        \* per invocation: local targetDir
  inputValue,       \* per invocation: value last submitted in the input box
  inputError,       \* per invocation: validation message shown in the input box ( <<>> is none )
  rawName,          \* per invocation: result of showInputBox ( <<>> is undefined, <<s>> the string s )
  camelCaseName,    \* per invocation: local camelCaseName
  pascalCaseName,   \* per invocation: local pascalCaseName
  fileOptions,      \* per invocation: result of showQuickPick ( <<>> is undefined, <<items>> the picked items )
  componentDir,     \* per invocation: local componentDir
  idx,              \* per invocation: index of the next forEach iteration
  notifications,    \* per invocation: messages shown by showErrorMessage / showInformationMessage
  fsLog,            \* per invocation: the mkdirSync / writeFileSync calls that returned
  rejected,         \* per invocation: the handler's promise rejected (an error reached the host)
  err,              \* per invocation: the catch block's err ( <<>> is nothing caught, <<m>> an Error with message m )
  running,          \* invocation inside its synchronous final block, 0 when none
  activeTextEditor, \* vscode.window.activeTextEditor ( <<>> is undefined, <<p>> a document with fsPath p )
  workspaceFolders, \* vscode.workspace.workspaceFolders as a list of fsPaths
  dirs,             \* file system: directories
  files,            \* file system: regular files, path -> content
  arg,              \* SpecNorm: argument of normalizeComponentName
  ret               \* SpecNorm: <<>> before the call, <<result>> after

handlerVars ==
  <<pc, uri, targetDir, inputValue, inputError, rawName, camelCaseName,
    pascalCaseName, fileOptions, componentDir, idx, notifications, fsLog,
    rejected, err, running>>

envVars == <<activeTextEditor, workspaceFolders>>

fsVars == <<dirs, files>>

normVars == <<arg, ret>>

vars == <<handlerVars, envVars, fsVars, normVars>>

\* ------------------------------------------------------------------------
\* Inputs
\* ------------------------------------------------------------------------

\* characters typed into normalizeComponentName's argument in SpecNorm
Alphabet == {"a", "b", "A", "B", "2", "-", "_"}

Strings(n) == UNION {[1..k -> Alphabet] : k \in 0..n}

\* values the user submits in the input box
NameInputs ==
  { <<>>, <<"2","a">>, <<"a","_">>,
    <<"a">>, <<"a","-","b">>, <<"A","B">> }

\* the uri argument: undefined (command palette), a Uri without a file
\* system path, a directory picked in the explorer
UriArgs == { <<>>, << <<>> >>, << <<Sep,"l">> >> }

ActiveTextEditors == { <<>>, << <<Sep,"s",Sep,"f">> >> }

WorkspaceFolderLists == { <<>>, << <<Sep,"w">>, <<Sep,"v">> >> }

\* every selection showQuickPick can return with canPickMany: the picked
\* items in display order
Selections ==
  { sel \in UNION {[1..k -> 1..Len(QuickPickItems)] : k \in 0..Len(QuickPickItems)} :
      \A a, b \in DOMAIN sel : a < b => sel[a] < sel[b] }

PickedItems(sel) == [k \in DOMAIN sel |-> QuickPickItems[sel[k]]]

StaleContent == Str("stale")

\* file systems the command starts on
CleanDirs == { <<Sep>>, <<Sep,"l">>, <<Sep,"s">>, <<Sep,"w">>, <<Sep,"v">> }

UsedDirs == { <<Sep>>, <<Sep,"l">>, <<Sep,"s">>, <<Sep,"v">>, <<Sep,"s",Sep,"a","B">> }

UsedFiles ==
  (<<Sep,"s",Sep,"a">> :> StaleContent)
    @@ (<<Sep,"s",Sep,"a","B",Sep,"a","B",".","j","s">> :> StaleContent)

\* ------------------------------------------------------------------------
\* fs calls
\* ------------------------------------------------------------------------

\* fs.existsSync(p)
existsSync(p) == p \in dirs \/ p \in DOMAIN files

\* the message of the error fs.mkdirSync(p) throws, <<>> when it returns;
\* denied: the operating system refuses the call
MkdirError(p, denied) ==
  IF PathDirname(p) \in DOMAIN files THEN Str("ENOTDIR: not a directory")
  ELSE IF PathDirname(p) \notin dirs THEN Str("ENOENT: no such file or directory")
  ELSE IF existsSync(p) THEN Str("EEXIST: file already exists")
  ELSE IF denied THEN Str("EACCES: permission denied")
  ELSE <<>>

\* the message of the error fs.writeFileSync(p, data) throws, <<>> when it returns
WriteError(p, denied) ==
  IF PathDirname(p) \in DOMAIN files THEN Str("ENOTDIR: not a directory")
  ELSE IF PathDirname(p) \notin dirs THEN Str("ENOENT: no such file or directory")
  ELSE IF p \in dirs THEN Str("EISDIR: illegal operation on a directory")
  ELSE IF denied THEN Str("EACCES: permission denied")
  ELSE <<>>

\* ------------------------------------------------------------------------
\* Pieces of the handler
\* ------------------------------------------------------------------------

\* variant of ResolveTargetDir: the active editor tried before the argument
ResolveTargetDirEditorFirst(u) ==
  IF activeTextEditor # <<>> THEN <<PathDirname(activeTextEditor[1])>>
  ELSE IF u # <<>> /\ u[1] # <<>> THEN <<u[1]>>
  ELSE IF workspaceFolders # <<>> /\ workspaceFolders[1] # <<>>
    THEN <<workspaceFolders[1]>>
  ELSE <<>>

\* Step 1: <<>> when no branch applies, <<dir>> otherwise
ResolveTargetDir(u) ==
  IF u # <<>> /\ u[1] # <<>> THEN <<u[1]>>
  ELSE IF activeTextEditor # <<>> THEN <<PathDirname(activeTextEditor[1])>>
  ELSE IF workspaceFolders # <<>> /\ workspaceFolders[1] # <<>>
    THEN <<workspaceFolders[1]>>
  ELSE <<>>

\* variant of validNameRegexTest: /^[a-zA-Z0-9-]+$/, the first character
\* not held to a letter
validNameRegexTestAnyFirst(value) ==
  /\ Len(value) >= 1
  /\ \A k \in 1..Len(value) :
       IsLower(value[k]) \/ IsUpper(value[k]) \/ value[k] \in Digits \/ value[k] = "-"

\* validNameRegex.test(value) for /^[a-zA-Z][a-zA-Z0-9-]*$/
validNameRegexTest(value) ==
  /\ Len(value) >= 1
  /\ IsLower(value[1]) \/ IsUpper(value[1])
  /\ \A k \in 2..Len(value) :
       IsLower(value[k]) \/ IsUpper(value[k]) \/ value[k] \in Digits \/ value[k] = "-"

\* the validateInput callback: <<>> is null (the value is accepted)
validateInput(value) ==
  IF validNameRegexTest(value)
    THEN <<>>
    ELSE Str("Component name must start with a letter and contain only letters, numbers, or hyphens.")

\* !rawName: undefined or the empty string
Falsy(opt) == opt = <<>> \/ opt[1] = <<>>

\* variant of FilePathOf: the label used as it is, without toLowerCase
FilePathOfLabel(dir, camel, label) == PathJoin(dir, camel \o <<".">> \o label)

\* `${camelCaseName}.${file.label.toLowerCase()}` joined to componentDir
FilePathOf(dir, camel, label) == PathJoin(dir, camel \o <<".">> \o toLowerCase(label))

\* the data the forEach callback passes to writeFileSync for a label
FileDataOf(label, pascal) ==
  IF label = <<"J","S">> THEN JsTemplate(pascal)
  ELSE IF label = <<"H","T","M","L">> THEN HtmlTemplate
  ELSE CssTemplate

ErrorNote(text) == [kind |-> "error", text |-> text]

InfoNote(text) == [kind |-> "info", text |-> text]

\* variant of Catch: the error is swallowed without showErrorMessage
CatchSilent(i, message) ==
  /\ err' = [err EXCEPT ![i] = <<message>>]
  /\ UNCHANGED notifications
  /\ pc' = [pc EXCEPT ![i] = "done"]
  /\ running' = 0

\* the catch block: one showErrorMessage, then the handler completes
Catch(i, message) ==
  /\ err' = [err EXCEPT ![i] = <<message>>]
  /\ notifications' = [notifications EXCEPT
       ![i] = Append(@, ErrorNote(Str("Error creating LWC: ") \o message))]
  /\ pc' = [pc EXCEPT ![i] = "done"]
  /\ running' = 0

\* ------------------------------------------------------------------------
\* Initial states
\* ------------------------------------------------------------------------

HandlerInit ==
  /\ pc = [i \in Procs |-> "idle"]
  /\ uri = [i \in Procs |-> <<>>]
  /\ targetDir = [i \in Procs |-> <<>>]
  /\ inputValue = [i \in Procs |-> <<>>]
  /\ inputError = [i \in Procs |-> <<>>]
  /\ rawName = [i \in Procs |-> <<>>]
  /\ camelCaseName = [i \in Procs |-> <<>>]
  /\ pascalCaseName = [i \in Procs |-> <<>>]
  /\ fileOptions = [i \in Procs |-> <<>>]
  /\ componentDir = [i \in Procs |-> <<>>]
  /\ idx = [i \in Procs |-> 0]
  /\ notifications = [i \in Procs |-> <<>>]
  /\ fsLog = [i \in Procs |-> <<>>]
  /\ rejected = [i \in Procs |-> FALSE]
  /\ err = [i \in Procs |-> <<>>]
  /\ running = 0

Init ==
  /\ HandlerInit
  /\ activeTextEditor \in ActiveTextEditors
  /\ workspaceFolders \in WorkspaceFolderLists
  /\ \/ dirs = CleanDirs /\ files = <<>>
     \/ dirs = UsedDirs /\ files = UsedFiles
  /\ arg = <<>>
  /\ ret = <<>>

\* ------------------------------------------------------------------------
\* The command handler, one action per stretch between suspension points;
\* the final synchronous block (steps 5 and 6) one action per fs call,
\* with `running` keeping other invocations out (run to completion)
\* ------------------------------------------------------------------------

\* the command is invoked with argument u: step 1, then showInputBox
Invoke(i, u) ==
  /\ pc[i] = "idle"
  /\ running = 0
  /\ uri' = [uri EXCEPT ![i] = u]
  /\ LET resolved == ResolveTargetDir(u) IN
     IF resolved = <<>>
       THEN /\ notifications' = [notifications EXCEPT
                 ![i] = Append(@, ErrorNote(Str("No target directory found.")))]
            /\ pc' = [pc EXCEPT ![i] = "done"]
            /\ UNCHANGED targetDir
       ELSE /\ targetDir' = [targetDir EXCEPT ![i] = resolved[1]]
            /\ pc' = [pc EXCEPT ![i] = "showInputBox"]
            /\ UNCHANGED notifications
  /\ UNCHANGED <<inputValue, inputError, rawName, camelCaseName, pascalCaseName,
                 fileOptions, componentDir, idx, fsLog, rejected, err, running>>
  /\ UNCHANGED <<envVars, fsVars, normVars>>

\* the user submits value in the input box and validateInput accepts it:
\* showInputBox resolves with value
InputBoxAccept(i, value) ==
  /\ pc[i] = "showInputBox"
  /\ running = 0
  /\ validateInput(value) = <<>>
  /\ inputValue' = [inputValue EXCEPT ![i] = value]
  /\ inputError' = [inputError EXCEPT ![i] = <<>>]
  /\ rawName' = [rawName EXCEPT ![i] = <<value>>]
  /\ pc' = [pc EXCEPT ![i] = "named"]
  /\ UNCHANGED <<uri, targetDir, camelCaseName, pascalCaseName, fileOptions,
                 componentDir, idx, notifications, fsLog, rejected, err, running>>
  /\ UNCHANGED <<envVars, fsVars, normVars>>

\* the user submits value and validateInput returns a message: the input
\* box shows it and stays open
InputBoxReject(i, value) ==
  /\ pc[i] = "showInputBox"
  /\ running = 0
  /\ validateInput(value) # <<>>
  /\ inputValue' = [inputValue EXCEPT ![i] = value]
  /\ inputError' = [inputError EXCEPT ![i] = validateInput(value)]
  /\ UNCHANGED <<pc, uri, targetDir, rawName, camelCaseName, pascalCaseName,
                 fileOptions, componentDir, idx, notifications, fsLog, rejected, err,
                 running>>
  /\ UNCHANGED <<envVars, fsVars, normVars>>

\* the user dismisses the input box: showInputBox resolves with undefined
InputBoxDismiss(i) ==
  /\ pc[i] = "showInputBox"
  /\ running = 0
  /\ rawName' = [rawName EXCEPT ![i] = <<>>]
  /\ pc' = [pc EXCEPT ![i] = "named"]
  /\ UNCHANGED <<uri, targetDir, inputValue, inputError, camelCaseName,
                 pascalCaseName, fileOptions, componentDir, idx, notifications,
                 fsLog, rejected, err, running>>
  /\ UNCHANGED <<envVars, fsVars, normVars>>

\* the handler resumes after showInputBox: cancel check, step 3, showQuickPick
AfterInputBox(i) ==
  /\ pc[i] = "named"
  /\ running = 0
  /\ IF Falsy(rawName[i])
       THEN /\ pc' = [pc EXCEPT ![i] = "done"]
            /\ UNCHANGED <<camelCaseName, pascalCaseName, notifications, running, err>>
       ELSE LET normalizedName == normalizeComponentName(rawName[i][1]) IN
            IF normalizedName.threw
              THEN /\ Catch(i, normalizedName.message)
                   /\ UNCHANGED <<camelCaseName, pascalCaseName>>
              ELSE /\ camelCaseName' = [camelCaseName EXCEPT ![i] = normalizedName.camelCase]
                   /\ pascalCaseName' = [pascalCaseName EXCEPT ![i] = normalizedName.pascalCase]
                   /\ pc' = [pc EXCEPT ![i] = "showQuickPick"]
                   /\ UNCHANGED <<notifications, running, err>>
  /\ UNCHANGED <<uri, targetDir, inputValue, inputError, rawName, fileOptions,
                 componentDir, idx, fsLog, rejected>>
  /\ UNCHANGED <<envVars, fsVars, normVars>>

\* the user confirms the quick pick with the items sel checked
QuickPickAccept(i, sel) ==
  /\ pc[i] = "showQuickPick"
  /\ running = 0
  /\ fileOptions' = [fileOptions EXCEPT ![i] = <<PickedItems(sel)>>]
  /\ pc' = [pc EXCEPT ![i] = "picked"]
  /\ UNCHANGED <<uri, targetDir, inputValue, inputError, rawName, camelCaseName,
                 pascalCaseName, componentDir, idx, notifications, fsLog, rejected, err,
                 running>>
  /\ UNCHANGED <<envVars, fsVars, normVars>>

\* the user dismisses the quick pick: showQuickPick resolves with undefined
QuickPickDismiss(i) ==
  /\ pc[i] = "showQuickPick"
  /\ running = 0
  /\ fileOptions' = [fileOptions EXCEPT ![i] = <<>>]
  /\ pc' = [pc EXCEPT ![i] = "picked"]
  /\ UNCHANGED <<uri, targetDir, inputValue, inputError, rawName, camelCaseName,
                 pascalCaseName, componentDir, idx, notifications, fsLog, rejected, err,
                 running>>
  /\ UNCHANGED <<envVars, fsVars, normVars>>

\* variant of AfterQuickPick: only !fileOptions is checked, not its length
AfterQuickPickNoLength(i) ==
  /\ pc[i] = "picked"
  /\ running = 0
  /\ IF fileOptions[i] = <<>>
       THEN /\ pc' = [pc EXCEPT ![i] = "done"]
            /\ UNCHANGED running
       ELSE /\ pc' = [pc EXCEPT ![i] = "createDir"]
            /\ running' = i
  /\ UNCHANGED <<uri, targetDir, inputValue, inputError, rawName, camelCaseName,
                 pascalCaseName, fileOptions, componentDir, idx, notifications,
                 fsLog, rejected, err>>
  /\ UNCHANGED <<envVars, fsVars, normVars>>

\* the handler resumes after showQuickPick: the check of lines 58-60; past
\* it the handler runs to its end without another suspension point
AfterQuickPick(i) ==
  /\ pc[i] = "picked"
  /\ running = 0
  /\ IF fileOptions[i] = <<>> \/ Len(fileOptions[i][1]) = 0
       THEN /\ pc' = [pc EXCEPT ![i] = "done"]
            /\ UNCHANGED running
       ELSE /\ pc' = [pc EXCEPT ![i] = "createDir"]
            /\ running' = i
  /\ UNCHANGED <<uri, targetDir, inputValue, inputError, rawName, camelCaseName,
                 pascalCaseName, fileOptions, componentDir, idx, notifications,
                 fsLog, rejected, err>>
  /\ UNCHANGED <<envVars, fsVars, normVars>>

\* step 5: componentDir, existsSync, mkdirSync
CreateDir(i, denied) ==
  /\ pc[i] = "createDir"
  /\ running = i
  /\ LET dir == PathJoin(targetDir[i], camelCaseName[i]) IN
     /\ componentDir' = [componentDir EXCEPT ![i] = dir]
     /\ IF ~existsSync(dir)
          THEN IF MkdirError(dir, denied) # <<>>
                 THEN /\ Catch(i, MkdirError(dir, denied))
                      /\ UNCHANGED <<dirs, fsLog, idx>>
                 ELSE /\ dirs' = dirs \cup {dir}
                      /\ fsLog' = [fsLog EXCEPT
                           ![i] = Append(@, [op |-> "mkdir", path |-> dir, data |-> <<>>])]
                      /\ idx' = [idx EXCEPT ![i] = 1]
                      /\ pc' = [pc EXCEPT ![i] = "forEach"]
                      /\ UNCHANGED <<notifications, running, err>>
          ELSE /\ ~denied
               /\ idx' = [idx EXCEPT ![i] = 1]
               /\ pc' = [pc EXCEPT ![i] = "forEach"]
               /\ UNCHANGED <<dirs, fsLog, notifications, running, err>>
  /\ UNCHANGED <<uri, targetDir, inputValue, inputError, rawName, camelCaseName,
                 pascalCaseName, fileOptions, rejected>>
  /\ UNCHANGED <<envVars, files, normVars>>

\* step 6: one iteration of fileOptions.forEach
WriteFile(i, denied) ==
  /\ pc[i] = "forEach"
  /\ running = i
  /\ idx[i] <= Len(fileOptions[i][1])
  /\ LET file == fileOptions[i][1][idx[i]]
         filePath == FilePathOf(componentDir[i], camelCaseName[i], file.label)
         data == FileDataOf(file.label, pascalCaseName[i])
     IN
     IF WriteError(filePath, denied) # <<>>
       THEN /\ Catch(i, WriteError(filePath, denied))
            /\ UNCHANGED <<files, fsLog, idx>>
       ELSE /\ files' = (filePath :> data) @@ files
            /\ fsLog' = [fsLog EXCEPT
                 ![i] = Append(@, [op |-> "write", path |-> filePath, data |-> data])]
            /\ idx' = [idx EXCEPT ![i] = @ + 1]
            /\ UNCHANGED <<pc, notifications, running, err>>
  /\ UNCHANGED <<uri, targetDir, inputValue, inputError, rawName, camelCaseName,
                 pascalCaseName, fileOptions, componentDir, rejected>>
  /\ UNCHANGED <<envVars, dirs, normVars>>

\* variant of ShowCreated: showInformationMessage inside the forEach
\* callback, after the first write
ShowCreatedEarly(i) ==
  /\ pc[i] = "forEach"
  /\ running = i
  /\ idx[i] > 1
  /\ notifications' = [notifications EXCEPT
       ![i] = Append(@, InfoNote(Str("LWC component '") \o camelCaseName[i]
                                   \o Str("' created in '") \o componentDir[i]
                                   \o Str("'.")))]
  /\ pc' = [pc EXCEPT ![i] = "done"]
  /\ running' = 0
  /\ UNCHANGED <<uri, targetDir, inputValue, inputError, rawName, camelCaseName,
                 pascalCaseName, fileOptions, componentDir, idx, fsLog, rejected, err>>
  /\ UNCHANGED <<envVars, fsVars, normVars>>

\* forEach has returned: showInformationMessage, and the handler completes
ShowCreated(i) ==
  /\ pc[i] = "forEach"
  /\ running = i
  /\ idx[i] > Len(fileOptions[i][1])
  /\ notifications' = [notifications EXCEPT
       ![i] = Append(@, InfoNote(Str("LWC component '") \o camelCaseName[i]
                                   \o Str("' created in '") \o componentDir[i]
                                   \o Str("'.")))]
  /\ pc' = [pc EXCEPT ![i] = "done"]
  /\ running' = 0
  /\ UNCHANGED <<uri, targetDir, inputValue, inputError, rawName, camelCaseName,
                 pascalCaseName, fileOptions, componentDir, idx, fsLog, rejected, err>>
  /\ UNCHANGED <<envVars, fsVars, normVars>>

Next ==
  \E i \in Procs :
    \/ \E u \in UriArgs : Invoke(i, u)
    \/ \E value \in NameInputs : InputBoxAccept(i, value)
    \/ \E value \in NameInputs : InputBoxReject(i, value)
    \/ InputBoxDismiss(i)
    \/ AfterInputBox(i)
    \/ \E sel \in Selections : QuickPickAccept(i, sel)
    \/ QuickPickDismiss(i)
    \/ AfterQuickPick(i)
    \/ \E denied \in BOOLEAN : CreateDir(i, denied)
    \/ \E denied \in BOOLEAN : WriteFile(i, denied)
    \/ ShowCreated(i)

Spec == Init /\ [][Next]_vars

\* ------------------------------------------------------------------------
\* normalizeComponentName on its own: one call on any string of the alphabet
\* ------------------------------------------------------------------------

InitNorm ==
  /\ HandlerInit
  /\ activeTextEditor = <<>>
  /\ workspaceFolders = <<>>
  /\ dirs = CleanDirs
  /\ files = <<>>
  /\ arg \in Strings(MaxLen)
  /\ ret = <<>>

CallNormalize ==
  /\ ret = <<>>
  /\ ret' = <<normalizeComponentName(arg)>>
  /\ UNCHANGED <<handlerVars, envVars, fsVars, arg>>

NextNorm == CallNormalize

SpecNorm == InitNorm /\ [][NextNorm]_vars

\* ------------------------------------------------------------------------
\* Vocabulary of the properties
\* ------------------------------------------------------------------------

SmallLetters == {"a", "b"}

CapitalLetters == {"A", "B"}

\* the capital of a small letter of the alphabet, any other character itself
Capital(c) == IF c = "a" THEN "A" ELSE IF c = "b" THEN "B" ELSE c

\* the small form of a capital letter of the alphabet, any other character itself
Small(c) == IF c = "A" THEN "a" ELSE IF c = "B" THEN "b" ELSE c

\* s matches ^[a-zA-Z][a-zA-Z0-9-]*$
RECURSIVE NameTail(_)
NameTail(s) ==
  \/ s = <<>>
  \/ /\ Head(s) \in SmallLetters \cup CapitalLetters \cup {"2", "-"}
     /\ NameTail(Tail(s))

ValidName(s) ==
  /\ s # <<>>
  /\ Head(s) \in SmallLetters \cup CapitalLetters
  /\ NameTail(Tail(s))

\* s is word1-word2-...-wordN: words of small letters and digits, each
\* starting with a small letter, separated by single hyphens
IsKebab(s) ==
  /\ s # <<>>
  /\ \A k \in DOMAIN s : s[k] \in SmallLetters \cup {"2", "-"}
  /\ s[1] \in SmallLetters
  /\ \A k \in DOMAIN s : s[k] = "-" => (k < Len(s) /\ s[k + 1] \in SmallLetters)

\* the words of the first k characters of a kebab name, joined, every word
\* after the first capitalised
RECURSIVE JoinWords(_, _)
JoinWords(s, k) ==
  IF k = 0 THEN <<>>
  ELSE IF s[k] = "-" THEN JoinWords(s, k - 1)
  ELSE Append(JoinWords(s, k - 1),
              IF k > 1 /\ s[k - 1] = "-" THEN Capital(s[k]) ELSE s[k])

\* C1: for every kebab-case name word1-...-wordN, normalizeComponentName
\* returns camelCase = word1 followed by the capitalised word2..wordN, and
\* pascalCase = that string with its first letter capitalised.
C1_KebabToCamel ==
  (ret # <<>> /\ IsKebab(arg)) =>
    /\ ~ret[1].threw
    /\ ret[1].camelCase = JoinWords(arg, Len(arg))
    /\ ret[1].pascalCase =
         <<Capital(JoinWords(arg, Len(arg))[1])>> \o Tail(JoinWords(arg, Len(arg)))

C1_Witness ==
  /\ arg = <<"a", "-", "b", "-", "a">>
  /\ ret # <<>>
  /\ ret[1].camelCase = <<"a", "B", "A">>
  /\ ret[1].pascalCase = <<"A", "B", "A">>

\* C2: for every valid raw name, camelCase and pascalCase are non-empty, of
\* equal length, equal after the first position, and at the first position
\* camelCase holds the small and pascalCase the capital form of one letter.
C2_FirstLetterOnly ==
  (ret # <<>> /\ ValidName(arg)) =>
    /\ ~ret[1].threw
    /\ ret[1].camelCase # <<>>
    /\ ret[1].pascalCase # <<>>
    /\ Len(ret[1].camelCase) = Len(ret[1].pascalCase)
    /\ \A k \in 2..Len(ret[1].camelCase) : ret[1].camelCase[k] = ret[1].pascalCase[k]
    /\ ret[1].camelCase[1] \in SmallLetters
    /\ ret[1].pascalCase[1] \in CapitalLetters
    /\ ret[1].pascalCase[1] = Capital(ret[1].camelCase[1])

C2_Witness ==
  /\ arg = <<"B", "-", "a", "2">>
  /\ ret # <<>>
  /\ ret[1].camelCase = <<"b", "A", "2">>
  /\ ret[1].pascalCase = <<"B", "A", "2">>

\* position k of s holds a hyphen immediately followed by a small letter
Dropped(s, k) == s[k] = "-" /\ k < Len(s) /\ s[k + 1] \in SmallLetters

\* where the character at position k of s lands once the dropped hyphens
\* before it are gone
Landing(s, k) == k - Cardinality({j \in 1..(k - 1) : Dropped(s, j)})

\* C8: in a valid raw name exactly the hyphens immediately followed by a
\* small letter are removed (that letter capitalised); every other hyphen
\* and every other character stays in place in camelCase and pascalCase,
\* so camelCase has a hyphen iff the raw name has a hyphen not followed by
\* a small letter.
C8_HyphenRule ==
  (ret # <<>> /\ ValidName(arg)) =>
    LET kept == {k \in DOMAIN arg : ~Dropped(arg, k)} IN
    /\ ~ret[1].threw
    /\ Len(ret[1].camelCase) = Cardinality(kept)
    /\ Len(ret[1].pascalCase) = Cardinality(kept)
    /\ \A k \in kept :
         /\ ret[1].camelCase[Landing(arg, k)] =
              IF k = 1 THEN Small(arg[k])
              ELSE IF Dropped(arg, k - 1) THEN Capital(arg[k])
              ELSE arg[k]
         /\ ret[1].pascalCase[Landing(arg, k)] =
              IF k = 1 \/ Dropped(arg, k - 1) THEN Capital(arg[k]) ELSE arg[k]
    /\ (\E m \in DOMAIN ret[1].camelCase : ret[1].camelCase[m] = "-")
         <=> (\E k \in DOMAIN arg : arg[k] = "-" /\ ~Dropped(arg, k))

C8_Witness ==
  /\ arg = <<"a", "-", "2", "-", "b">>
  /\ ret # <<>>
  /\ ret[1].camelCase = <<"a", "-", "2", "B">>
  /\ ret[1].pascalCase = <<"A", "-", "2", "B">>

\* ------------------------------------------------------------------------
\* Properties of the command handler
\* ------------------------------------------------------------------------

\* showInputBox returned a non-empty string to invocation i
Named(i) == rawName[i] # <<>> /\ rawName[i][1] # <<>>

\* showQuickPick returned at least one item to invocation i
Picked(i) == fileOptions[i] # <<>> /\ fileOptions[i][1] # <<>>

\* invocation i was shown the input box and the user dismissed it
NameDismissed(i) == pc[i] = "done" /\ targetDir[i] # <<>> /\ rawName[i] = <<>>

\* invocation i was shown the quick pick and the user dismissed it or
\* confirmed it with nothing checked
PickDismissed(i) == pc[i] = "done" /\ camelCaseName[i] # <<>> /\ ~Picked(i)

HasNote(i, kind) == \E k \in DOMAIN notifications[i] : notifications[i][k].kind = kind

\* the entries of invocation i's fs calls of one kind
LogOf(i, op) == {k \in DOMAIN fsLog[i] : fsLog[i][k].op = op}

\* the paths of all invocations' fs calls of one kind
PathsOf(op) == UNION {{fsLog[i][k].path : k \in LogOf(i, op)} : i \in Procs}

\* the file system the command started on (nothing creates /w, nothing is
\* ever removed)
StartedClean == <<Sep, "w">> \in dirs

StartDirs == IF StartedClean THEN CleanDirs ELSE UsedDirs

StartFiles == IF StartedClean THEN <<>> ELSE UsedFiles

\* C3: an invocation whose name prompt was dismissed, or whose file-type
\* prompt was dismissed or confirmed empty, has returned without an fs call
\* and without a notification; when every invocation ended that way the
\* file system is as it started.
C3_CancelIsSilent ==
  /\ \A i \in Procs :
       (NameDismissed(i) \/ PickDismissed(i)) =>
         /\ fsLog[i] = <<>>
         /\ notifications[i] = <<>>
         /\ err[i] = <<>>
  /\ (\A i \in Procs : NameDismissed(i) \/ PickDismissed(i)) =>
       (dirs = StartDirs /\ files = StartFiles)

C3_Witness ==
  /\ NameDismissed(1)
  /\ PickDismissed(2)
  /\ fileOptions[2] = << <<>> >>
  /\ files = UsedFiles

\* the extension of a file type
ExtOf(label) ==
  IF label = <<"J","S">> THEN <<"j","s">>
  ELSE IF label = <<"H","T","M","L">> THEN <<"h","t","m","l">>
  ELSE <<"c","s","s">>

\* the PascalCase form of a camelCase name
PascalOf(camel) == <<Capital(camel[1])>> \o Tail(camel)

\* the content a file of a type is to have in a component named camel
ContentOf(label, camel) ==
  IF label = <<"J","S">> THEN JsTemplate(PascalOf(camel))
  ELSE IF label = <<"H","T","M","L">> THEN HtmlTemplate
  ELSE <<>>

\* invocation i ran to its end with a non-empty selection and no error
Succeeded(i) == pc[i] = "done" /\ Picked(i) /\ err[i] = <<>>

SelectedLabels(i) == {fileOptions[i][1][k].label : k \in DOMAIN fileOptions[i][1]}

\* C4: an invocation that selected the non-empty set S and met no error
\* wrote exactly the files <camelCase>.<ext> for the types of S, once each,
\* into <targetDir>/<camelCase>, each with the content of its type (JS the
\* class template naming <PascalCase>, HTML the two-line template, CSS
\* empty), and those files exist with that content.
C4_ExactlySelectedFiles ==
  \A i \in Procs :
    Succeeded(i) =>
      LET camel == camelCaseName[i]
          dir == targetDir[i] \o <<Sep>> \o camel
          pathOf(l) == dir \o <<Sep>> \o camel \o <<".">> \o ExtOf(l)
      IN
      /\ dir \in dirs
      /\ Cardinality(LogOf(i, "write")) = Cardinality(SelectedLabels(i))
      /\ {fsLog[i][k].path : k \in LogOf(i, "write")} = {pathOf(l) : l \in SelectedLabels(i)}
      /\ \A l \in SelectedLabels(i) :
           /\ \E k \in LogOf(i, "write") :
                fsLog[i][k].path = pathOf(l) /\ fsLog[i][k].data = ContentOf(l, camel)
           /\ pathOf(l) \in DOMAIN files
           /\ files[pathOf(l)] = ContentOf(l, camel)

C4_Witness ==
  /\ Succeeded(1)
  /\ SelectedLabels(1) = { <<"H","T","M","L">> }
  /\ camelCaseName[1] = <<"a","B">>
  /\ DOMAIN files = { <<Sep,"s",Sep,"a","B",Sep,"a","B",".","h","t","m","l">> }
  /\ files[<<Sep,"s",Sep,"a","B",Sep,"a","B",".","h","t","m","l">>] = HtmlTemplate

\* C5 (state part): an invocation that caught an error has completed, has
\* shown exactly one notification, the error message built from the caught
\* error's message, nothing reached the host, and what it had created is
\* still there.
C5_AfterFailure ==
  \A i \in Procs :
    err[i] # <<>> =>
      /\ pc[i] = "done"
      /\ notifications[i] = <<ErrorNote(Str("Error creating LWC: ") \o err[i][1])>>
      /\ ~rejected[i]
      /\ \A k \in LogOf(i, "mkdir") : fsLog[i][k].path \in dirs
      /\ \A k \in LogOf(i, "write") : fsLog[i][k].path \in DOMAIN files

\* C5 (step part): leaving step 5 or an unfinished forEach for the end of
\* the handler is a caught error, and that step changes nothing on the
\* file system; after it the invocation makes no fs call and shows nothing.
C5_FailureStep ==
  \A i \in Procs :
    /\ ( /\ pc'[i] = "done"
         /\ \/ pc[i] = "createDir"
            \/ pc[i] = "forEach" /\ idx[i] <= Len(fileOptions[i][1]) )
         => (err'[i] # <<>> /\ dirs' = dirs /\ files' = files /\ fsLog' = fsLog)
    /\ err[i] # <<>> =>
         (fsLog'[i] = fsLog[i] /\ notifications'[i] = notifications[i] /\ pc'[i] = "done")
    /\ dirs \subseteq dirs'
    /\ DOMAIN files \subseteq DOMAIN files'

\* C5: when directory creation or a file write throws, the handler makes no
\* further write, shows exactly one error notification carrying the error's
\* message and no success notification, rolls nothing back, and completes
\* without the error reaching the host.
C5_ErrorIsCaught == [](C5_AfterFailure) /\ [][C5_FailureStep]_vars

C5_Witness ==
  /\ err[1] = <<Str("EACCES: permission denied")>>
  /\ Len(fileOptions[1][1]) = 3
  /\ Len(fsLog[1]) = 2
  /\ fsLog[1][1].op = "mkdir"
  /\ fsLog[1][2].op = "write"
  /\ fsLog[1][2].path \in DOMAIN files

\* the command was given a directory reference
HasDirectoryArg(i) == uri[i] # <<>> /\ uri[i][1] # <<>>

\* dir is the directory holding the file at path p
IsDirectoryOf(dir, p) ==
  \E n \in 1..Len(p) :
    /\ p = dir \o <<Sep>> \o SubSeq(p, Len(p) - n + 1, Len(p))
    /\ \A k \in (Len(p) - n + 1)..Len(p) : p[k] # Sep

\* invocation i has shown no prompt and made no fs call
NothingShown(i) ==
  /\ inputValue[i] = <<>> /\ inputError[i] = <<>> /\ rawName[i] = <<>>
  /\ camelCaseName[i] = <<>> /\ fileOptions[i] = <<>> /\ fsLog[i] = <<>>

\* C6: the target directory is the directory passed to the command when
\* there is one; otherwise the directory of the active document when an
\* editor is active; otherwise the first workspace folder; with none of the
\* three the handler shows "No target directory found." and returns with
\* no prompt shown and no fs call made.
C6_TargetDirPriority ==
  \A i \in Procs :
    pc[i] # "idle" =>
      IF HasDirectoryArg(i) THEN targetDir[i] = uri[i][1]
      ELSE IF activeTextEditor # <<>> THEN IsDirectoryOf(targetDir[i], activeTextEditor[1])
      ELSE IF workspaceFolders # <<>> THEN targetDir[i] = Head(workspaceFolders)
      ELSE /\ pc[i] = "done"
           /\ targetDir[i] = <<>>
           /\ notifications[i] = <<ErrorNote(Str("No target directory found."))>>
           /\ NothingShown(i)

C6_Witness ==
  /\ activeTextEditor # <<>>
  /\ workspaceFolders # <<>>
  /\ uri[1] = << <<Sep,"l">> >>
  /\ targetDir[1] = <<Sep,"l">>
  /\ uri[2] = <<>>
  /\ targetDir[2] = <<Sep,"s">>

\* C7: the input box shows a validation message for exactly the submitted
\* values that do not match ^[a-zA-Z][a-zA-Z0-9-]*$ and resolves with
\* exactly those that do, so normalizeComponentName only ever gets a valid
\* non-empty name: it never throws, and every fs call of the handler comes
\* from a valid name.
C7_OnlyValidNames ==
  \A i \in Procs :
    /\ inputError[i] # <<>> => (~ValidName(inputValue[i]) /\ rawName[i] = <<>>)
    /\ rawName[i] # <<>> => (ValidName(rawName[i][1]) /\ inputValue[i] = rawName[i][1])
    /\ (pc[i] = "showInputBox" /\ inputError[i] = <<>>) => inputValue[i] = <<>>
    /\ camelCaseName[i] # <<>> => (Named(i) /\ ValidName(rawName[i][1]))
    /\ fsLog[i] # <<>> => (Named(i) /\ ValidName(rawName[i][1]))
    /\ err[i] # <<TypeErrorMessage>>

C7_Witness ==
  /\ pc[1] = "showInputBox"
  /\ inputValue[1] = <<"2","a">>
  /\ inputError[1] # <<>>
  /\ rawName[2] = << <<"a","-","b">> >>
  /\ camelCaseName[2] = <<"a","B">>
  /\ fsLog[2] # <<>>

\* the order of the handler's positions
Rank(p) ==
  CASE p = "idle" -> 0
    [] p = "showInputBox" -> 1
    [] p = "named" -> 2
    [] p = "showQuickPick" -> 3
    [] p = "picked" -> 4
    [] p = "createDir" -> 5
    [] p = "forEach" -> 6
    [] p = "done" -> 7

\* C9 (state part): fs calls only after both prompts returned a value, the
\* directory creation before every write, the success notification only
\* once every selected file is written.
C9_Order ==
  \A i \in Procs :
    /\ fsLog[i] # <<>> => (targetDir[i] # <<>> /\ Named(i) /\ Picked(i))
    /\ \A k \in LogOf(i, "mkdir") : k = 1
    /\ HasNote(i, "info") =>
         /\ pc[i] = "done"
         /\ Cardinality(LogOf(i, "write")) = Len(fileOptions[i][1])
         /\ \A l \in SelectedLabels(i) :
              (componentDir[i] \o <<Sep>> \o camelCaseName[i] \o <<".">> \o ExtOf(l))
                \in DOMAIN files

\* C9 (step part): an invocation moves through its positions one by one in
\* order (or returns); a directory is created only where nothing exists; a
\* file is written only into an existing component directory; nothing else
\* changes the file system.
C9_OrderStep ==
  /\ \A i \in Procs :
       /\ pc'[i] # pc[i] => (Rank(pc'[i]) = Rank(pc[i]) + 1 \/ pc'[i] = "done")
       /\ fsLog'[i] # fsLog[i] =>
            LET e == fsLog'[i][Len(fsLog'[i])] IN
            /\ fsLog'[i] = Append(fsLog[i], e)
            /\ Named(i) /\ Picked(i)
            /\ e.op = "mkdir" =>
                 (e.path \notin dirs /\ e.path \notin DOMAIN files /\ e.path \in dirs')
            /\ e.op = "write" =>
                 (componentDir[i] \in dirs /\ IsDirectoryOf(componentDir[i], e.path))
  /\ (dirs' # dirs \/ files' # files) => \E i \in Procs : fsLog'[i] # fsLog[i]

\* C9: every handler run takes the steps target-directory resolution, name
\* prompt, file-type prompt, directory creation (only if the directory does
\* not exist), file writes, success notification in that order.
C9_StepsInOrder == [](C9_Order) /\ [][C9_OrderStep]_vars

C9_Witness ==
  /\ HasNote(1, "info")
  /\ HasNote(2, "info")
  /\ componentDir[1] = componentDir[2]
  /\ LogOf(1, "mkdir") = {1}
  /\ Len(fsLog[1]) = 4
  /\ LogOf(2, "mkdir") = {}
  /\ Len(fsLog[2]) = 2

\* C10: when both invocations have run to their end without an error, the
\* file system is the starting one plus the directories they created and
\* the files they wrote, each file holding what each of its writers wrote:
\* two writes to one path carried the same content, so the order in which
\* the invocations ran does not show.
C10_OrderIndependent ==
  (\A i \in Procs : pc[i] = "done" /\ err[i] = <<>>) =>
    /\ \A i \in Procs : \A k \in LogOf(i, "write") :
         /\ fsLog[i][k].path \in DOMAIN files
         /\ files[fsLog[i][k].path] = fsLog[i][k].data
    /\ \A i, j \in Procs : \A k \in LogOf(i, "write") : \A m \in LogOf(j, "write") :
         fsLog[i][k].path = fsLog[j][m].path => fsLog[i][k].data = fsLog[j][m].data
    /\ DOMAIN files =
         DOMAIN StartFiles \cup PathsOf("write")
    /\ \A p \in DOMAIN StartFiles :
         (\A i \in Procs : \A k \in LogOf(i, "write") : fsLog[i][k].path # p)
           => files[p] = StartFiles[p]
    /\ dirs = StartDirs \cup PathsOf("mkdir")

C10_Witness ==
  /\ \A i \in Procs : pc[i] = "done" /\ err[i] = <<>>
  /\ rawName[1] = << <<"a","-","b">> >>
  /\ rawName[2] = << <<"A","B">> >>
  /\ \E k \in LogOf(1, "write") : \E m \in LogOf(2, "write") :
       /\ fsLog[1][k].path = fsLog[2][m].path
       /\ fsLog[1][k].path = <<Sep,"s",Sep,"a","B",Sep,"a","B",".","j","s">>

====
